---- MODULE Spec2Model ----
(***************************************************************************)
(* A model of the shell emulator of src/.venv/aa.py (class ShellEmulator). *)
(*                                                                         *)
(* Python strings are sequences of one-character strings, so that split,   *)
(* strip, join and normpath are computed and not assumed.  The virtual     *)
(* file system self.fs is a tree of nested dicts; it is kept here as the   *)
(* function from key paths (the sequence of dict keys leading to a value)  *)
(* to the value found there: a dict, or a string.  The metadata keys       *)
(* "type", "content" and "owner" live in the same dicts as the children,   *)
(* exactly as in the source.                                               *)
(***************************************************************************)
EXTENDS Integers, Sequences, FiniteSets, TLC

VARIABLES
    platform,       \* which os.path the interpreter provides: "posix" or "nt"
    archive,        \* the members tar.getmembers() returned, in order
    fs,             \* self.fs
    current_path,   \* self.current_path
    current_user,   \* self.current_user
    log_actions,    \* self.log_actions
    log_file,       \* the document at self.log_path (NoFile: none written)
    stdout,         \* what the last dispatched line printed
    command,        \* the last line handed to execute_command
    pc              \* "run": in the loop of run(); "exited"; "raised"

vars == <<platform, archive, fs, current_path, current_user, log_actions,
          log_file, stdout, command, pc>>

-----------------------------------------------------------------------------
(* Characters and string literals of the source.                           *)

SL == "/"
BS == "\\"
NL == "\n"
CR == "\r"
SP == " "
TAB == "\t"
DOT == "."

Whitespace == {SP, TAB, NL, CR}

S_root    == <<"r", "o", "o", "t">>
S_type    == <<"t", "y", "p", "e">>
S_content == <<"c", "o", "n", "t", "e", "n", "t">>
S_owner   == <<"o", "w", "n", "e", "r">>
S_file    == <<"f", "i", "l", "e">>
S_dir     == <<"d", "i", "r">>
S_ls      == <<"l", "s">>
S_cd      == <<"c", "d">>
S_chown   == <<"c", "h", "o", "w", "n">>
S_who     == <<"w", "h", "o">>
S_uniq    == <<"u", "n", "i", "q">>
S_exit    == <<"e", "x", "i", "t">>
S_slash   == <<SL>>
S_dotdot  == <<DOT, DOT>>
S_dot     == <<DOT>>

-----------------------------------------------------------------------------
(* str methods.                                                            *)

Last(s) == s[Len(s)]
Front(s) == SubSeq(s, 1, Len(s) - 1)

RECURSIVE LStrip(_, _)
LStrip(s, chars) ==
    IF s # <<>> /\ Head(s) \in chars THEN LStrip(Tail(s), chars) ELSE s

RECURSIVE RStrip(_, _)
RStrip(s, chars) ==
    IF s # <<>> /\ Last(s) \in chars THEN RStrip(Front(s), chars) ELSE s

\* s.strip(chars)
Strip(s, chars) == RStrip(LStrip(s, chars), chars)

\* s.split(c) for a one-character separator: empty pieces are kept
RECURSIVE SplitOn(_, _)
SplitOn(s, c) ==
    IF \A i \in 1..Len(s) : s[i] # c
    THEN <<s>>
    ELSE LET i == CHOOSE k \in 1..Len(s) :
                      s[k] = c /\ \A j \in 1..(k - 1) : s[j] # c
         IN  <<SubSeq(s, 1, i - 1)>> \o SplitOn(SubSeq(s, i + 1, Len(s)), c)

\* s.split(): runs of whitespace separate, no empty pieces
RECURSIVE SplitWs(_)
SplitWs(s) ==
    LET t == LStrip(s, Whitespace)
    IN  IF t = <<>>
        THEN <<>>
        ELSE IF \A i \in 1..Len(t) : t[i] \notin Whitespace
             THEN <<t>>
             ELSE LET i == CHOOSE k \in 1..Len(t) :
                               t[k] \in Whitespace
                               /\ \A j \in 1..(k - 1) : t[j] \notin Whitespace
                  IN  <<SubSeq(t, 1, i - 1)>>
                          \o SplitWs(SubSeq(t, i + 1, Len(t)))

\* sep.join(parts)
RECURSIVE Join(_, _)
Join(parts, sep) ==
    IF parts = <<>> THEN <<>>
    ELSE IF Len(parts) = 1 THEN parts[1]
    ELSE parts[1] \o sep \o Join(Tail(parts), sep)

\* s.replace(a, b) for one-character a and b
Replace(s, a, b) == [i \in 1..Len(s) |-> IF s[i] = a THEN b ELSE s[i]]

\* s.splitlines(): "\n", "\r" and "\r\n" end a line; the last line needs no
\* terminator, and a terminator at the very end opens no further line
RECURSIVE SplitLines(_)
SplitLines(s) ==
    IF s = <<>>
    THEN <<>>
    ELSE IF \A i \in 1..Len(s) : s[i] \notin {NL, CR}
         THEN <<s>>
         ELSE LET i == CHOOSE k \in 1..Len(s) :
                           s[k] \in {NL, CR}
                           /\ \A j \in 1..(k - 1) : s[j] \notin {NL, CR}
                  n == IF s[i] = CR /\ i < Len(s) /\ s[i + 1] = NL
                       THEN i + 1 ELSE i
              IN  <<SubSeq(s, 1, i - 1)>>
                      \o SplitLines(SubSeq(s, n + 1, Len(s)))

-----------------------------------------------------------------------------
(* os.path of the two platforms, for paths without a drive letter and      *)
(* without a leading double separator (no UNC prefix).                     *)

\* the loop over the components, shared in shape by posixpath.normpath and
\* ntpath.normpath: "" and "." are dropped, ".." removes the component before
\* it, is dropped at the root and is kept in a relative path
RECURSIVE NormComps(_, _, _)
NormComps(comps, out, rooted) ==
    IF comps = <<>> THEN out
    ELSE LET c == Head(comps)
             rest == Tail(comps)
         IN  IF c = <<>> \/ c = S_dot
             THEN NormComps(rest, out, rooted)
             ELSE IF c # S_dotdot
             THEN NormComps(rest, Append(out, c), rooted)
             ELSE IF out # <<>> /\ Last(out) # S_dotdot
             THEN NormComps(rest, Front(out), rooted)
             ELSE IF out = <<>> /\ rooted
             THEN NormComps(rest, out, rooted)
             ELSE NormComps(rest, Append(out, c), rooted)

posix_join(a, b) ==
    IF b # <<>> /\ Head(b) = SL THEN b
    ELSE IF a = <<>> \/ Last(a) = SL THEN a \o b
    ELSE a \o S_slash \o b

posix_normpath(path) ==
    IF path = <<>> THEN S_dot
    ELSE LET initial_slashes ==
                 IF Head(path) # SL THEN 0
                 ELSE IF Len(path) >= 2 /\ path[2] = SL
                         /\ ~(Len(path) >= 3 /\ path[3] = SL)
                      THEN 2 ELSE 1
             joined == Join(NormComps(SplitOn(path, SL), <<>>,
                                      initial_slashes > 0), S_slash)
             res == [i \in 1..initial_slashes |-> SL] \o joined
         IN  IF res = <<>> THEN S_dot ELSE res

nt_join(a, b) ==
    IF b # <<>> /\ Head(b) \in {SL, BS} THEN b
    ELSE LET root == IF a # <<>> /\ Head(a) \in {SL, BS} THEN <<Head(a)>> ELSE <<>>
             rpath == IF root # <<>> THEN Tail(a) ELSE a
         IN  IF rpath # <<>> /\ Last(rpath) \notin {SL, BS}
             THEN root \o rpath \o <<BS>> \o b
             ELSE root \o rpath \o b

nt_normpath(path) ==
    LET p == Replace(path, SL, BS)
        rooted == p # <<>> /\ Head(p) = BS
        body == IF rooted THEN Tail(p) ELSE p
        comps == NormComps(SplitOn(body, BS), <<>>, rooted)
    IN  IF ~rooted /\ comps = <<>> THEN S_dot
        ELSE (IF rooted THEN <<BS>> ELSE <<>>) \o Join(comps, <<BS>>)

\* os.path.join and os.path.normpath of the running interpreter
os_path_join(plat, a, b) ==
    IF plat = "nt" THEN nt_join(a, b) ELSE posix_join(a, b)

os_path_normpath(plat, path) ==
    IF plat = "nt" THEN nt_normpath(path) ELSE posix_normpath(path)

-----------------------------------------------------------------------------
(* self.fs.  A value is a dict or a str; fs maps the key path of every     *)
(* value below the root dict to it.  The root dict itself is the key path  *)
(* <<>> and is always a dict (self.fs = {}).                               *)

DictV == [tag |-> "dict", val |-> <<>>]
StrV(s) == [tag |-> "str", val |-> s]

EmptyFs == [kp \in {} |-> DictV]

IsPrefix(p, kp) == Len(p) <= Len(kp) /\ SubSeq(kp, 1, Len(p)) = p

\* isinstance(value at kp, dict)
IsDict(f, kp) == kp = <<>> \/ (kp \in DOMAIN f /\ f[kp].tag = "dict")

\* key in node
HasKey(f, node, key) == Append(node, key) \in DOMAIN f

\* the keys of the dict at kp
Keys(f, kp) ==
    {x[Len(kp) + 1] : x \in {y \in DOMAIN f : Len(y) = Len(kp) + 1 /\ IsPrefix(kp, y)}}

\* what is left of f when the value at kp, with all below it, is dropped
Without(f, kp) ==
    [x \in {y \in DOMAIN f : ~IsPrefix(kp, y)} |-> f[x]]

\* node[key] = {k1: v1, ...} with string values: the value that was there,
\* children included, is replaced by the new dict
AssignDict(f, kp, items) ==
    LET g == Without(f, kp)
        new == {kp} \cup {Append(kp, it[1]) : it \in items}
    IN  [x \in DOMAIN g \cup new |->
            IF x = kp THEN DictV
            ELSE IF x \in new
                 THEN StrV((CHOOSE it \in items : Append(kp, it[1]) = x)[2])
                 ELSE g[x]]

\* node[key] = <a string>
AssignStr(f, kp, s) ==
    LET g == Without(f, kp)
    IN  [x \in DOMAIN g \cup {kp} |-> IF x = kp THEN StrV(s) ELSE g[x]]

-----------------------------------------------------------------------------
(* load_tar.  A member is [name, kind, content]; kind "file" is isfile(),  *)
(* "dir" is isdir(), and any other kind is neither.                        *)

\* for part in parts[:-1]: node = node.setdefault(part, {})
\* setdefault on a str raises AttributeError
RECURSIVE SetDefaultWalk(_, _, _)
SetDefaultWalk(f, node, parts) ==
    IF parts = <<>>
    THEN [fs |-> f, node |-> node, raised |-> FALSE]
    ELSE IF ~IsDict(f, node)
         THEN [fs |-> f, node |-> node, raised |-> TRUE]
         ELSE LET k == Append(node, Head(parts))
              IN  IF k \in DOMAIN f
                  THEN SetDefaultWalk(f, k, Tail(parts))
                  ELSE SetDefaultWalk([x \in DOMAIN f \cup {k} |->
                                          IF x = k THEN DictV ELSE f[x]],
                                      k, Tail(parts))

\* the body of the loop over tar.getmembers()
LoadMember(f, member) ==
    LET parts == SplitOn(member.name, SL)
        w == SetDefaultWalk(f, <<>>, Front(parts))
        leaf == Append(w.node, Last(parts))
    IN  IF w.raised THEN [fs |-> w.fs, raised |-> TRUE]
        ELSE IF member.kind \notin {"file", "dir"}
             THEN [fs |-> w.fs, raised |-> FALSE]
        ELSE IF ~IsDict(w.fs, w.node)
             THEN [fs |-> w.fs, raised |-> TRUE]
        ELSE IF member.kind = "file"
             THEN [fs |-> AssignDict(w.fs, leaf,
                                     {<<S_type, S_file>>,
                                      <<S_content, member.content>>,
                                      <<S_owner, S_root>>}),
                   raised |-> FALSE]
             ELSE [fs |-> AssignDict(w.fs, leaf,
                                     {<<S_type, S_dir>>, <<S_owner, S_root>>}),
                   raised |-> FALSE]

RECURSIVE LoadFrom(_, _)
LoadFrom(f, members) ==
    IF members = <<>> THEN [fs |-> f, raised |-> FALSE]
    ELSE LET r == LoadMember(f, Head(members))
         IN  IF r.raised THEN r ELSE LoadFrom(r.fs, Tail(members))

load_tar(members) == LoadFrom(EmptyFs, members)

-----------------------------------------------------------------------------
(* traverse_path: the key path of the node reached, or None.               *)

None == [found |-> FALSE, node |-> <<>>]
Some(kp) == [found |-> TRUE, node |-> kp]

RECURSIVE TraverseParts(_, _, _)
TraverseParts(f, node, parts) ==
    IF parts = <<>> THEN Some(node)
    ELSE LET part == Head(parts)
         IN  IF part = <<>>
             THEN TraverseParts(f, node, Tail(parts))
             ELSE IF ~HasKey(f, node, part) \/ ~IsDict(f, Append(node, part))
                  THEN None
                  ELSE TraverseParts(f, Append(node, part), Tail(parts))

\* traverse_path as it would be if it took the forward slash for a
\* separator as well
traverse_path_either_separator(f, path) ==
    TraverseParts(f, <<>>, SplitOn(Strip(Replace(path, SL, BS), {BS}), BS))

traverse_path(f, path) ==
    TraverseParts(f, <<>>, SplitOn(Strip(path, {BS}), BS))

-----------------------------------------------------------------------------
(* The session.  `self` is the record of the fields of the ShellEmulator;  *)
(* every handler is the function from the session before the call to the   *)
(* session after it.                                                       *)

\* the document at self.log_path: not written, or written with these entries
NoFile == [written |-> FALSE, entries |-> <<>>]
Document(entries) == [written |-> TRUE, entries |-> entries]

\* a line written by print(): the format, its string arguments, and, for
\* the loop of ls over the keys of a dict, the set of the keys printed
Printed(fmt, args) == [fmt |-> fmt, args |-> args, names |-> {}]
PrintedNames(names) == [fmt |-> "{name}", args |-> <<>>, names |-> names]

\* request_login: the typed name stripped, "guest" when nothing is left
request_login(typed) ==
    LET user == Strip(typed, Whitespace)
    IN  IF user = <<>> THEN <<"g", "u", "e", "s", "t">> ELSE user

\* log as it would be if only failures of a handler went unrecorded
log_errors_dropped(self, cmd, status, message) ==
    IF status = "error" THEN self
    ELSE [self EXCEPT !.log_actions =
            Append(@, [command |-> cmd, status |-> status, message |-> message])]

\* log as it would be with the newest entry placed first
log_newest_first(self, cmd, status, message) ==
    [self EXCEPT !.log_actions =
        <<[command |-> cmd, status |-> status, message |-> message]>> \o @]

\* log: one entry appended.  The timestamp, datetime.now() at the append,
\* is a reading of the environment's clock and is not part of the model.
log(self, cmd, status, message) ==
    [self EXCEPT !.log_actions =
        Append(@, [command |-> cmd, status |-> status, message |-> message])]

print(self, line) == [self EXCEPT !.stdout = Append(@, line)]

\* save_log as it would be without the test for an empty log
save_log_always(self, io_ok) ==
    IF io_ok
    THEN print([self EXCEPT !.log_file = Document(self.log_actions)],
               Printed("Log saved to {log_path}", <<>>))
    ELSE print(self, Printed("Error saving log: {e}", <<>>))

\* save_log: nothing is written for an empty log; tree.write may fail
\* (io_ok = FALSE), which is caught and reported
save_log(self, io_ok) ==
    IF self.log_actions = <<>>
    THEN print(self, Printed("No actions to log.", <<>>))
    ELSE IF io_ok
         THEN print([self EXCEPT !.log_file = Document(self.log_actions)],
                    Printed("Log saved to {log_path}", <<>>))
         ELSE print(self, Printed("Error saving log: {e}", <<>>))

exit_shell(self, io_ok) ==
    [print(save_log(self, io_ok), Printed("Session saved. Exiting...", <<>>))
        EXCEPT !.pc = "exited"]

ls(self) ==
    LET node == traverse_path(self.fs, self.current_path)
    IN  IF ~node.found
        THEN log(print(self, Printed("Not a directory", <<>>)),
                 S_ls, "error", "Not a directory")
        ELSE log(print(self, PrintedNames(Keys(self.fs, node.node))),
                 S_ls, "success", "")

\* cd as it would be if only a missing argument were refused
cd_first_argument(self, args) ==
    IF Len(args) = 0
    THEN log(print(self, Printed("Usage: cd <path>", <<>>)),
             S_cd, "error", "Invalid arguments")
    ELSE LET path == args[1]
             new_path == os_path_normpath(self.platform,
                            os_path_join(self.platform, self.current_path, path))
         IN  IF ~traverse_path(self.fs, new_path).found
             THEN log(print(self, Printed("No such directory: {path}", <<path>>)),
                      S_cd, "error", "No such directory")
             ELSE log([self EXCEPT !.current_path = new_path],
                      S_cd \o <<SP>> \o path, "success", "")

cd(self, args) ==
    IF Len(args) # 1
    THEN log(print(self, Printed("Usage: cd <path>", <<>>)),
             S_cd, "error", "Invalid arguments")
    ELSE LET path == args[1]
             new_path == os_path_normpath(self.platform,
                            os_path_join(self.platform, self.current_path, path))
         IN  IF ~traverse_path(self.fs, new_path).found
             THEN log(print(self, Printed("No such directory: {path}", <<path>>)),
                      S_cd, "error", "No such directory")
             ELSE log([self EXCEPT !.current_path = new_path],
                      S_cd \o <<SP>> \o path, "success", "")

\* chown as it would be with status="error" forgotten in the call of log for
\* an unresolved path (success is the default of log)
chown_default_status(self, args) ==
    IF Len(args) # 2
    THEN log(print(self, Printed("Usage: chown <owner> <path>", <<>>)),
             S_chown, "error", "Invalid arguments")
    ELSE LET owner == args[1]
             path == args[2]
             node == traverse_path(self.fs,
                        os_path_join(self.platform, self.current_path, path))
         IN  IF ~node.found
             THEN log(print(self, Printed("No such file or directory: {path}",
                                          <<path>>)),
                      S_chown, "success", "No such file or directory")
             ELSE IF ~HasKey(self.fs, node.node, S_owner)
             THEN log(print(self, Printed("Cannot change owner of {path}",
                                          <<path>>)),
                      S_chown, "error", "Cannot change owner")
             ELSE log(print([self EXCEPT !.fs =
                                AssignStr(@, Append(node.node, S_owner), owner)],
                            Printed("Owner of {path} changed to {owner}",
                                    <<path, owner>>)),
                      S_chown \o <<SP>> \o owner \o <<SP>> \o path, "success", "")

chown(self, args) ==
    IF Len(args) # 2
    THEN log(print(self, Printed("Usage: chown <owner> <path>", <<>>)),
             S_chown, "error", "Invalid arguments")
    ELSE LET owner == args[1]
             path == args[2]
             node == traverse_path(self.fs,
                        os_path_join(self.platform, self.current_path, path))
         IN  IF ~node.found
             THEN log(print(self, Printed("No such file or directory: {path}",
                                          <<path>>)),
                      S_chown, "error", "No such file or directory")
             ELSE IF ~HasKey(self.fs, node.node, S_owner)
             THEN log(print(self, Printed("Cannot change owner of {path}",
                                          <<path>>)),
                      S_chown, "error", "Cannot change owner")
             ELSE log(print([self EXCEPT !.fs =
                                AssignStr(@, Append(node.node, S_owner), owner)],
                            Printed("Owner of {path} changed to {owner}",
                                    <<path, owner>>)),
                      S_chown \o <<SP>> \o owner \o <<SP>> \o path, "success", "")

who(self) ==
    log(print(self, Printed("User: {current_user}", <<self.current_user>>)),
        S_who, "success", "")

\* lines.index(x), counted from 1
Index(lines, x) ==
    CHOOSE i \in 1..Len(lines) : lines[i] = x /\ \A j \in 1..(i - 1) : lines[j] # x

\* sorted(S, key=lines.index)
RECURSIVE SortedByIndex(_, _)
SortedByIndex(S, lines) ==
    IF S = {} THEN <<>>
    ELSE LET m == CHOOSE x \in S : \A y \in S : Index(lines, x) <= Index(lines, y)
         IN  <<m>> \o SortedByIndex(S \ {m}, lines)

\* unique_lines as it would be with the lines joined as they are
unique_lines_all(content) == Join(SplitLines(content), <<NL>>)

\* "\n".join(sorted(set(lines), key=lines.index)) for lines = content.splitlines()
unique_lines(content) ==
    LET lines == SplitLines(content)
    IN  Join(SortedByIndex({lines[i] : i \in 1..Len(lines)}, lines), <<NL>>)

\* node.get("type") != "file"
TypeIsFile(f, node) ==
    HasKey(f, node, S_type) /\ f[Append(node, S_type)] = StrV(S_file)

\* uniq as it would be if it also made the current user the owner of the file
uniq_takes_ownership(self, args) ==
    IF Len(args) # 1
    THEN log(print(self, Printed("Usage: uniq <file>", <<>>)),
             S_uniq, "error", "Invalid arguments")
    ELSE LET path == args[1]
             node == traverse_path(self.fs, path)
             ckey == Append(node.node, S_content)
         IN  IF ~node.found \/ ~TypeIsFile(self.fs, node.node)
             THEN log(print(self, Printed("No such file: {path}", <<path>>)),
                      S_uniq, "error", "No such file")
             ELSE IF ckey \notin DOMAIN self.fs \/ self.fs[ckey].tag # "str"
             THEN [self EXCEPT !.pc = "raised"]
             ELSE LET text == unique_lines(self.fs[ckey].val)
                  IN  log(print([self EXCEPT !.fs =
                                    AssignStr(AssignStr(@, ckey, text),
                                              Append(node.node, S_owner),
                                              self.current_user)],
                                Printed("{unique_lines}", <<text>>)),
                          S_uniq \o <<SP>> \o path, "success", "")

\* uniq as it would be if it resolved its argument from the current path,
\* as chown does
uniq_from_current_path(self, args) ==
    IF Len(args) # 1
    THEN log(print(self, Printed("Usage: uniq <file>", <<>>)),
             S_uniq, "error", "Invalid arguments")
    ELSE LET path == args[1]
             node == traverse_path(self.fs,
                        os_path_join(self.platform, self.current_path, path))
             ckey == Append(node.node, S_content)
         IN  IF ~node.found \/ ~TypeIsFile(self.fs, node.node)
             THEN log(print(self, Printed("No such file: {path}", <<path>>)),
                      S_uniq, "error", "No such file")
             ELSE IF ckey \notin DOMAIN self.fs \/ self.fs[ckey].tag # "str"
             THEN [self EXCEPT !.pc = "raised"]
             ELSE LET text == unique_lines(self.fs[ckey].val)
                  IN  log(print([self EXCEPT !.fs = AssignStr(@, ckey, text)],
                                Printed("{unique_lines}", <<text>>)),
                          S_uniq \o <<SP>> \o path, "success", "")

\* uniq.  node["content"].splitlines() raises when "content" is not a key
\* of the node or its value is not a str
uniq(self, args) ==
    IF Len(args) # 1
    THEN log(print(self, Printed("Usage: uniq <file>", <<>>)),
             S_uniq, "error", "Invalid arguments")
    ELSE LET path == args[1]
             node == traverse_path(self.fs, path)
             ckey == Append(node.node, S_content)
         IN  IF ~node.found \/ ~TypeIsFile(self.fs, node.node)
             THEN log(print(self, Printed("No such file: {path}", <<path>>)),
                      S_uniq, "error", "No such file")
             ELSE IF ckey \notin DOMAIN self.fs \/ self.fs[ckey].tag # "str"
             THEN [self EXCEPT !.pc = "raised"]
             ELSE LET text == unique_lines(self.fs[ckey].val)
                  IN  log(print([self EXCEPT !.fs = AssignStr(@, ckey, text)],
                                Printed("{unique_lines}", <<text>>)),
                          S_uniq \o <<SP>> \o path, "success", "")

-----------------------------------------------------------------------------
(* Inputs.                                                                 *)

MaxEntries == 2      \* members of an archive
MaxCmds == 2         \* entries of the log of a session
MaxContentLen == 5   \* characters of the file of a session of uniq alone

Platforms == {"posix", "nt"}

Text1 == <<"x", NL, "x", NL, "y", NL>>
Text2 == <<"x", NL, NL>>

Members ==
    { [name |-> <<"a">>, kind |-> "dir", content |-> <<>>],
      [name |-> <<"a", SL, "f">>, kind |-> "file", content |-> Text1],
      [name |-> <<"f">>, kind |-> "file", content |-> Text2],
      [name |-> <<"f", SL>> \o S_content, kind |-> "dir", content |-> <<>>] }

\* the archives: up to MaxEntries members, no member twice
Archives ==
    UNION {{ms \in [1..n -> Members] :
               \A i, j \in 1..n : ms[i] = ms[j] => i = j} : n \in 0..MaxEntries}

S_bob == <<"b", "o", "b">>

Words(ws) == Join(ws, <<SP>>)

Lines ==
    { <<>>,
      <<SP, TAB>>,
      S_ls,
      S_who,
      S_exit,
      <<SP, "z", "z">>,
      S_cd,
      Words(<<S_cd, <<"a">>>>),
      Words(<<S_cd, <<"f">>>>),
      Words(<<S_cd, S_dotdot>>),
      Words(<<S_cd, <<"z">>>>),
      S_cd \o <<SP, SP>> \o <<"a">> \o <<SP>>,
      Words(<<S_cd, <<BS, "a">>>>),
      Words(<<S_cd, <<"a">>, <<"f">>>>),
      Words(<<S_chown, S_bob>>),
      Words(<<S_chown, S_bob, <<"a">>>>),
      Words(<<S_chown, S_bob, <<"f">>>>),
      Words(<<S_chown, S_bob, <<"z">>>>),
      Words(<<S_chown, S_bob, <<"a">>, <<"f">>>>),
      S_uniq,
      Words(<<S_uniq, <<"f">>>>),
      Words(<<S_uniq, <<"a", BS, "f">>>>),
      Words(<<S_uniq, <<"a", SL, "f">>>>),
      Words(<<S_uniq, <<"a">>>>) }

\* command.strip().split() of execute_command, for every line of the model
PartsOf == [line \in Lines |-> SplitWs(Strip(line, Whitespace))]

LoginInputs == { <<SP, "b", "o", "b">> }

\* the files of the sessions of uniq alone
ContentChars == {"x", "y", NL, CR}
Contents == UNION {[1..n -> ContentChars] : n \in 0..MaxContentLen}
FileF(content) == [name |-> <<"f">>, kind |-> "file", content |-> content]
UniqF == Words(<<S_uniq, <<"f">>>>)

-----------------------------------------------------------------------------
(* The state machine: __init__, then the loop of run().                    *)

\* execute_command as it would be if an unknown line were logged by its verb
execute_command_logs_verb(self0, line, io_ok) ==
    LET self == [self0 EXCEPT !.stdout = <<>>]
        parts == PartsOf[line]
    IN  IF parts = <<>> THEN self
        ELSE LET cmd == parts[1]
                 args == Tail(parts)
             IN  IF cmd = S_ls THEN ls(self)
                 ELSE IF cmd = S_cd THEN cd(self, args)
                 ELSE IF cmd = S_chown THEN chown(self, args)
                 ELSE IF cmd = S_who THEN who(self)
                 ELSE IF cmd = S_uniq THEN uniq(self, args)
                 ELSE IF cmd = S_exit THEN exit_shell(self, io_ok)
                 ELSE log(print(self, Printed("Command not found: {cmd}", <<cmd>>)),
                          cmd, "error", "Command not found")

\* execute_command: what the line prints replaces stdout
execute_command(self0, line, io_ok) ==
    LET self == [self0 EXCEPT !.stdout = <<>>]
        parts == PartsOf[line]
    IN  IF parts = <<>> THEN self
        ELSE LET cmd == parts[1]
                 args == Tail(parts)
             IN  IF cmd = S_ls THEN ls(self)
                 ELSE IF cmd = S_cd THEN cd(self, args)
                 ELSE IF cmd = S_chown THEN chown(self, args)
                 ELSE IF cmd = S_who THEN who(self)
                 ELSE IF cmd = S_uniq THEN uniq(self, args)
                 ELSE IF cmd = S_exit THEN exit_shell(self, io_ok)
                 ELSE log(print(self, Printed("Command not found: {cmd}", <<cmd>>)),
                          line, "error", "Command not found")

Self ==
    [platform |-> platform, fs |-> fs, current_path |-> current_path,
     current_user |-> current_user, log_actions |-> log_actions,
     log_file |-> log_file, stdout |-> stdout, pc |-> pc]

\* __init__ on an archive: the fields, the login, load_tar.  An exception of
\* load_tar ends the process in main().  A source that tarfile does not take
\* for an archive raises before the loop and gives no session at all.
InitOn(members) ==
    \E loaded \in {load_tar(members)} :
        /\ platform \in Platforms
        /\ archive = members
        /\ fs = loaded.fs
        /\ pc = IF loaded.raised THEN "raised" ELSE "run"
        /\ current_path = S_slash
        /\ \E typed \in LoginInputs : current_user = request_login(typed)
        /\ log_actions = <<>>
        /\ log_file = NoFile
        /\ stdout = <<>>
        /\ command = <<>>

Init == \E members \in Archives : InitOn(members)

\* the first word of a line, <<>> when it has none
Verb(line) == IF PartsOf[line] = <<>> THEN <<>> ELSE PartsOf[line][1]

LinesOf(verb) == {line \in Lines : Verb(line) = verb}

LsLines == LinesOf(S_ls)
CdLines == LinesOf(S_cd)
ChownLines == LinesOf(S_chown)
WhoLines == LinesOf(S_who)
UniqLines == LinesOf(S_uniq)
ExitLines == LinesOf(S_exit)
EmptyLines == LinesOf(<<>>)
OtherLines ==
    Lines \ (LsLines \cup CdLines \cup ChownLines \cup WhoLines \cup UniqLines
                \cup ExitLines \cup EmptyLines)

\* one turn of the loop of run(): the line read is executed.  An exception
\* (SystemExit of exit, or an error) leaves the loop.
Step(line, io_ok) ==
    /\ pc = "run"
    /\ \E r \in {execute_command(Self, line, io_ok)} :
           /\ fs' = r.fs
           /\ current_path' = r.current_path
           /\ log_actions' = r.log_actions
           /\ log_file' = r.log_file
           /\ stdout' = r.stdout
           /\ pc' = r.pc
    /\ command' = line
    /\ UNCHANGED <<platform, archive, current_user>>

\* a turn of the loop while the log has fewer than MaxCmds entries
Dispatch(line, io_ok) == Len(log_actions) < MaxCmds /\ Step(line, io_ok)

\* the lines of each verb, as execute_command tells them apart
Ls == \E line \in Lines : line \in LsLines /\ Dispatch(line, TRUE)

Cd == \E line \in Lines : line \in CdLines /\ Dispatch(line, TRUE)

Chown == \E line \in Lines : line \in ChownLines /\ Dispatch(line, TRUE)

Who == \E line \in Lines : line \in WhoLines /\ Dispatch(line, TRUE)

Uniq == \E line \in Lines : line \in UniqLines /\ Dispatch(line, TRUE)

Exit ==
    \E line \in Lines, io_ok \in BOOLEAN :
        line \in ExitLines /\ Step(line, io_ok)

NotFound == \E line \in Lines : line \in OtherLines /\ Dispatch(line, TRUE)

EmptyLine == \E line \in Lines : line \in EmptyLines /\ Dispatch(line, TRUE)

Next == Ls \/ Cd \/ Chown \/ Who \/ Uniq \/ Exit \/ NotFound \/ EmptyLine

Spec == Init /\ [][Next]_vars

\* sessions on an archive of the one file f, any content, in which every
\* line is uniq f
InitUniq == \E content \in Contents : InitOn(<<FileF(content)>>)

UniqFile == \E line \in {UniqF} : line \in UniqLines /\ Dispatch(line, TRUE)

NextUniq == UniqFile

SpecUniq == InitUniq /\ [][NextUniq]_vars

-----------------------------------------------------------------------------
(* Vocabulary of the properties.                                           *)

\* parts[1:] of execute_command
Args(line) == Tail(PartsOf[line])

LastEntry(entries) == entries[Len(entries)]

\* the step appended exactly one entry to the log
OneEntryAppended ==
    /\ Len(log_actions') = Len(log_actions) + 1
    /\ SubSeq(log_actions', 1, Len(log_actions)) = log_actions

\* a Directory node: a dict that is not tagged as a file
IsDirectory(f, kp) == IsDict(f, kp) /\ ~TypeIsFile(f, kp)

\* the names of a path, whichever separator delimits them
RECURSIVE Components(_)
Components(path) ==
    IF path = <<>> THEN <<>>
    ELSE IF \A i \in 1..Len(path) : path[i] \notin {SL, BS}
         THEN <<path>>
         ELSE LET i == CHOOSE k \in 1..Len(path) :
                           path[k] \in {SL, BS}
                           /\ \A j \in 1..(k - 1) : path[j] \notin {SL, BS}
                  rest == Components(SubSeq(path, i + 1, Len(path)))
              IN  IF i = 1 THEN rest ELSE <<SubSeq(path, 1, i - 1)>> \o rest

\* the parts of the name of a member
MemberParts(member) == SplitOn(member.name, SL)

\* the names the archive places immediately below the key path kp
ArchiveChildren(kp) ==
    {MemberParts(archive[i])[Len(kp) + 1] :
        i \in {j \in DOMAIN archive :
                  /\ Len(MemberParts(archive[j])) > Len(kp)
                  /\ IsPrefix(kp, MemberParts(archive[j]))}}

\* the lines of a text, each kept at its first occurrence only
RECURSIVE FirstOccurrences(_, _)
FirstOccurrences(lines, seen) ==
    IF lines = <<>> THEN <<>>
    ELSE IF Head(lines) \in seen
         THEN FirstOccurrences(Tail(lines), seen)
         ELSE <<Head(lines)>>
                  \o FirstOccurrences(Tail(lines), seen \cup {Head(lines)})

\* the step is a uniq that succeeded
UniqSucceeds ==
    /\ Verb(command') = S_uniq
    /\ OneEntryAppended
    /\ LastEntry(log_actions').status = "success"

-----------------------------------------------------------------------------
C2_CurrentPathResolves ==
    /\ traverse_path(fs, current_path).found
    /\ IsDirectory(fs, traverse_path(fs, current_path).node)
    /\ (current_path = S_slash => traverse_path(fs, current_path).node = <<>>)

(* C3.  A cd with one argument whose normalized target does not resolve,   *)
(* or resolves to a node that is not a Directory, logs an entry with       *)
(* status error and leaves the current path unchanged.                     *)
C3_CdRejectsNonDirectory ==
    [][(/\ Verb(command') = S_cd
        /\ Len(Args(command')) = 1
        /\ LET target == traverse_path(fs,
                            os_path_normpath(platform,
                                os_path_join(platform, current_path,
                                             Args(command')[1])))
           IN  ~target.found \/ ~IsDirectory(fs, target.node))
       => (/\ OneEntryAppended
           /\ LastEntry(log_actions').status = "error"
           /\ current_path' = current_path)]_vars

(* C4.  Whenever ls succeeds, the names it lists are exactly the names of  *)
(* the immediate children of the current Directory as loaded from the      *)
(* archive; it never lists a metadata field of a node.                     *)
C4_LsListsChildren ==
    (/\ Verb(command) = S_ls
     /\ log_actions # <<>>
     /\ LastEntry(log_actions).status = "success")
    => (/\ Len(stdout) = 1
        /\ stdout[1].names
              = ArchiveChildren(traverse_path(fs, current_path).node))

(* C5.  uniq is idempotent: a uniq of a file that the line before has      *)
(* already passed through uniq leaves the file as it is.                   *)
C5_UniqIdempotent ==
    [][(/\ Verb(command) = S_uniq
        /\ log_actions # <<>>
        /\ LastEntry(log_actions).status = "success"
        /\ command' = command
        /\ UniqSucceeds)
       => fs' = fs]_vars

(* C6.  A successful uniq sets the content of the file to its distinct     *)
(* lines, each once, at the position of its first occurrence, joined by    *)
(* newline; nothing else of the tree changes.                              *)
C6_UniqKeepsFirstOccurrences ==
    [][UniqSucceeds
       => \A ckey \in {Append(traverse_path(fs, Args(command')[1]).node, S_content)} :
            /\ ckey \in DOMAIN fs
            /\ \A lines \in {SplitLines(fs[ckey].val)} :
                 \A kept \in {FirstOccurrences(lines, {})} :
                    fs' = [fs EXCEPT ![ckey] = StrV(Join(kept, <<NL>>))]]_vars

\* uniq has rewritten x, y, x to x, y
C6_Witness ==
    /\ archive = <<FileF(<<"x", NL, "y", NL, "x">>)>>
    /\ command = UniqF
    /\ Len(log_actions) = 1
    /\ LastEntry(log_actions).status = "success"
    /\ fs[<<<<"f">>, S_content>>] = StrV(<<"x", NL, "y">>)

(* C7.  For any path that names a node of the loaded tree, File or         *)
(* Directory, explicit or implicit, chown <owner> <path> succeeds and      *)
(* afterwards the owner attribute of that node is <owner>.                 *)
C7_ChownSetsOwner ==
    [][(/\ Verb(command') = S_chown
        /\ Len(Args(command')) = 2
        /\ IsDict(fs, Components(current_path) \o Components(Args(command')[2])))
       => (/\ OneEntryAppended
           /\ LastEntry(log_actions').status = "success"
           /\ LET okey == Append(Components(current_path)
                                    \o Components(Args(command')[2]), S_owner)
              IN  okey \in DOMAIN fs' /\ fs'[okey] = StrV(Args(command')[1]))]_vars

(* C8.  A chown with two arguments whose path does not resolve to any      *)
(* node logs exactly one entry, with status error, and leaves the tree     *)
(* and the current path unchanged.                                         *)
C8_ChownUnresolved ==
    [][(/\ Verb(command') = S_chown
        /\ Len(Args(command')) = 2
        /\ ~traverse_path(fs, os_path_join(platform, current_path,
                                           Args(command')[2])).found)
       => (/\ OneEntryAppended
           /\ LastEntry(log_actions').status = "error"
           /\ fs' = fs
           /\ current_path' = current_path
           /\ pc' = "run")]_vars

\* chown bob z has been refused, in a directory that cd has entered
C8_Witness ==
    /\ command = Words(<<S_chown, S_bob, <<"z">>>>)
    /\ Len(log_actions) = 2
    /\ log_actions[1].status = "success"
    /\ LastEntry(log_actions).status = "error"
    /\ LastEntry(log_actions).message = "No such file or directory"
    /\ current_path = <<BS, "a">>

(* C9.  After the load, every file entry and every directory entry of the  *)
(* archive is reachable: resolving its exact path from the root returns    *)
(* the node at that path.                                                  *)
C9_EntriesReachable ==
    \A i \in DOMAIN archive :
        archive[i].kind \in {"file", "dir"}
        => /\ traverse_path(load_tar(archive).fs, archive[i].name).found
           /\ traverse_path(load_tar(archive).fs, archive[i].name).node
                = MemberParts(archive[i])

(* C10.  Loading a directory entry for a path whose Directory exists       *)
(* already, created implicitly as the parent of an earlier entry, reuses   *)
(* that Directory and keeps everything already placed in it.               *)
C10_DirEntryKeepsChildren ==
    \A j \in DOMAIN archive :
        LET before == load_tar(SubSeq(archive, 1, j - 1)).fs
            after == load_tar(SubSeq(archive, 1, j)).fs
            kp == MemberParts(archive[j])
        IN  (/\ archive[j].kind = "dir"
             /\ kp \in DOMAIN before
             /\ IsDict(before, kp)
             /\ ~HasKey(before, kp, S_type))
            => \A x \in DOMAIN before : x \in DOMAIN after /\ after[x] = before[x]

\* the key paths of the nodes the archive names: every entry, and every
\* parent of an entry
ArchiveNodes ==
    UNION {{SubSeq(MemberParts(archive[i]), 1, n) :
               n \in 1..Len(MemberParts(archive[i]))} :
           i \in {j \in DOMAIN archive : archive[j].kind \in {"file", "dir"}}}

(* C11.  Immediately after the load, every node of the tree, whether a     *)
(* File, a Directory listed in the archive or a Directory created as the   *)
(* parent of an entry, has an owner attribute, and it is "root".           *)
C11_EveryNodeOwnedByRoot ==
    \A loaded \in {load_tar(archive)} :
        ~loaded.raised
        => \A kp \in ArchiveNodes :
              /\ Append(kp, S_owner) \in DOMAIN loaded.fs
              /\ loaded.fs[Append(kp, S_owner)] = StrV(S_root)

(* C12.  A line whose verb is none of ls, cd, chown, who, uniq, exit logs  *)
(* exactly one entry, whose command is the line as it was typed, whose     *)
(* status is error and whose message is "Command not found"; the tree and  *)
(* the current path stay as they are, and the loop goes on.                *)
C12_UnknownVerb ==
    [][Verb(command') \notin {<<>>, S_ls, S_cd, S_chown, S_who, S_uniq, S_exit}
       => (/\ OneEntryAppended
           /\ LastEntry(log_actions') =
                 [command |-> command', status |-> "error",
                  message |-> "Command not found"]
           /\ fs' = fs
           /\ current_path' = current_path
           /\ log_file' = log_file
           /\ pc' = "run")]_vars

\* an unknown line, typed with a leading blank, and a who after it
C12_Witness ==
    /\ Len(log_actions) = 2
    /\ log_actions[1] = [command |-> <<SP, "z", "z">>, status |-> "error",
                         message |-> "Command not found"]
    /\ command = S_who
    /\ log_actions[2].status = "success"
    /\ pc = "run"

\* a single name: no separator in it, and neither "." nor ".."
IsName(path) ==
    /\ path \notin {<<>>, S_dot, S_dotdot}
    /\ \A i \in 1..Len(path) : path[i] \notin {SL, BS}

(* C13.  From any current path P, a successful cd <name> into a child      *)
(* Directory, followed immediately by cd .., brings the current path back  *)
(* to exactly P, and that cd .. succeeds.                                  *)
C13_CdThenParentReturns ==
    [][(/\ Verb(command') = S_cd
        /\ Len(Args(command')) = 1
        /\ IsName(Args(command')[1])
        /\ OneEntryAppended
        /\ LastEntry(log_actions').status = "success"
        /\ IsDirectory(fs', traverse_path(fs', current_path').node))
       => \A back \in {cd(Self', <<S_dotdot>>)} :
             /\ LastEntry(back.log_actions).status = "success"
             /\ back.current_path = current_path]_vars

(* C14.  On exit the log is flushed exactly once and the session ends: no  *)
(* line is dispatched and no state changes after it.  The document that    *)
(* exit writes holds every entry of the log, in the order of the appends;  *)
(* a write that fails is reported and leaves no document; for an empty     *)
(* log no file is written.  Nothing else writes the document.              *)
C14_ExitFlushesOnce ==
    [][/\ pc = "run"
       /\ IF Verb(command') = S_exit
          THEN /\ pc' = "exited"
               /\ log_actions' = log_actions
               /\ fs' = fs
               /\ current_path' = current_path
               /\ log_file = NoFile
               /\ Len(stdout') = 2
               /\ stdout'[2].fmt = "Session saved. Exiting..."
               /\ IF log_actions = <<>>
                  THEN log_file' = NoFile /\ stdout'[1].fmt = "No actions to log."
                  ELSE \/ /\ log_file' = Document(log_actions)
                          /\ stdout'[1].fmt = "Log saved to {log_path}"
                       \/ /\ log_file' = NoFile
                          /\ stdout'[1].fmt = "Error saving log: {e}"
          ELSE log_file' = log_file /\ pc' # "exited"]_vars

\* exit has written a document of two different entries
C14_Witness ==
    /\ pc = "exited"
    /\ Len(log_actions) = 2
    /\ log_actions[1].command = S_who
    /\ log_actions[2].command = S_ls
    /\ log_file = Document(log_actions)
    /\ stdout[1].fmt = "Log saved to {log_path}"

(* C15.  The command field of every log entry is the input line as it was  *)
(* dispatched, for every verb, for success and for error alike.            *)
C15_CommandIsRawLine ==
    [][OneEntryAppended => LastEntry(log_actions').command = command']_vars

(* C16.  The log is append-only: at every step the log before the step is  *)
(* a prefix of the log after it.                                           *)
C16_LogAppendOnly ==
    [][IsPrefix(log_actions, log_actions')]_vars

\* a second entry has been appended behind a different first one
C16_Witness ==
    /\ Len(log_actions) = 2
    /\ log_actions[1].command = S_ls
    /\ log_actions[1].status = "error"
    /\ log_actions[2].command = S_who
    /\ command = S_who

\* the line has a verb that takes arguments, and not as many as it takes
WrongArgumentCount(line) ==
    \/ Verb(line) = S_cd /\ Len(Args(line)) # 1
    \/ Verb(line) = S_chown /\ Len(Args(line)) # 2
    \/ Verb(line) = S_uniq /\ Len(Args(line)) # 1

(* C17.  A cd without exactly one argument, a chown without exactly two    *)
(* and a uniq without exactly one each log one entry, with status error    *)
(* and message "Invalid arguments", and leave the tree and the current     *)
(* path unchanged; and every command whose log entry has status error      *)
(* leaves the tree and the current path unchanged.                         *)
C17_ErrorsChangeNothing ==
    [][/\ WrongArgumentCount(command')
          => /\ OneEntryAppended
             /\ LastEntry(log_actions').status = "error"
             /\ LastEntry(log_actions').message = "Invalid arguments"
             /\ fs' = fs
             /\ current_path' = current_path
       /\ (OneEntryAppended /\ LastEntry(log_actions').status = "error")
          => fs' = fs /\ current_path' = current_path]_vars

\* cd with two arguments has been refused, in a directory cd had entered
C17_Witness ==
    /\ command = Words(<<S_cd, <<"a">>, <<"f">>>>)
    /\ Len(log_actions) = 2
    /\ log_actions[1].status = "success"
    /\ LastEntry(log_actions) =
          [command |-> S_cd, status |-> "error", message |-> "Invalid arguments"]
    /\ current_path = <<BS, "a">>
    /\ <<<<"a">>, <<"f">>>> \in DOMAIN fs

\* the key paths of the contents of the files, and of the owners
ContentKeys(f) ==
    {kp \in DOMAIN f : Last(kp) = S_content /\ TypeIsFile(f, Front(kp))}

OwnerKeys(f) == {kp \in DOMAIN f : Last(kp) = S_owner}

CurrentPaths == {S_slash, <<BS>>, <<BS, "a">>, <<BS, "f">>, <<BS, "a", BS, "f">>}

(* C19.  uniq resolves its argument from the root of the tree and never    *)
(* from the current path: in a session with the same tree and any other    *)
(* current path, the same uniq line has the same outcome (the same entry   *)
(* logged, the same file changed, the same resulting tree, the same        *)
(* output).                                                                *)
C19_UniqIgnoresCurrentPath ==
    [][Verb(command') = S_uniq
       => \A p \in CurrentPaths :
            \A other \in {uniq([Self EXCEPT !.current_path = p, !.stdout = <<>>],
                               Args(command'))} :
               /\ other.fs = fs'
               /\ other.log_actions = log_actions'
               /\ other.stdout = stdout'
               /\ other.pc = pc'
               /\ other.current_path = p
               /\ current_path' = current_path]_vars

\* in the directory a, which has no f, uniq f has rewritten the f of the root
C19_Witness ==
    /\ platform = "nt"
    /\ current_path = <<BS, "a">>
    /\ <<<<"a">>, <<"f">>>> \notin DOMAIN fs
    /\ command = UniqF
    /\ Len(log_actions) = 2
    /\ LastEntry(log_actions) =
          [command |-> UniqF, status |-> "success", message |-> ""]
    /\ fs[<<<<"f">>, S_content>>] = StrV(<<"x", NL>>)

(* C20.  Where os.path joins with the forward slash (posixpath), cd and    *)
(* chown do nothing: whatever the tree and the argument, no cd and no      *)
(* chown succeeds, the current path stays "/" and no owner changes.        *)
C20_PosixCdChownNeverSucceed ==
    [][platform = "posix"
       => /\ Verb(command') \in {S_cd, S_chown}
             => OneEntryAppended /\ LastEntry(log_actions').status = "error"
          /\ current_path = S_slash
          /\ current_path' = S_slash
          /\ OwnerKeys(fs') = OwnerKeys(fs)
          /\ \A kp \in OwnerKeys(fs) : fs'[kp] = fs[kp]]_vars

\* with a directory a in the tree, cd a and chown bob a have both failed
C20_Witness ==
    /\ platform = "posix"
    /\ archive = <<[name |-> <<"a">>, kind |-> "dir", content |-> <<>>]>>
    /\ Len(log_actions) = 2
    /\ log_actions[1] =
          [command |-> S_cd, status |-> "error", message |-> "No such directory"]
    /\ command = Words(<<S_chown, S_bob, <<"a">>>>)
    /\ log_actions[2] =
          [command |-> S_chown, status |-> "error",
           message |-> "No such file or directory"]
    /\ current_path = S_slash
    /\ fs[<<<<"a">>, S_owner>>] = StrV(S_root)


====
